---- MODULE Spec2Model ----
(***************************************************************************)
(* A model of the blog application's views: the shop views of              *)
(* blog/views/views.py (products, customers, orders, the reporting         *)
(* aggregates and the csv/json/xlsx export) and the registration and       *)
(* email verification views of blog/views/auth.py.                         *)
(*                                                                         *)
(* Text is modelled as a sequence of one-character strings, money as an    *)
(* integer number of cents (a Decimal with two places), an unhandled       *)
(* exception as a response of kind "raise".                                *)
(***************************************************************************)
EXTENDS Integers, Sequences, FiniteSets, TLC

VARIABLES
    products,     \* Product rows, in primary-key order: [slug, price]
    customers,    \* Customer rows, in primary-key order
    nextCustomer, \* the next Customer primary key (auto-increment)
    orders,       \* Order rows, in primary-key order: [customer, product, quantity]
    req,          \* the request handled last
    resp,         \* the response it got
    users,        \* User rows, in primary-key order
    outbox,       \* per user, the activation mail sent at registration
    now,          \* the clock the token generator reads
    areq,         \* the auth request handled last
    aresp         \* the response it got

shopVars == <<products, customers, nextCustomer, orders, req, resp>>
authVars == <<users, outbox, now, areq, aresp>>
vars == <<products, customers, nextCustomer, orders, req, resp,
          users, outbox, now, areq, aresp>>

----------------------------------------------------------------------------
(* Bounds of the model *)

MaxProducts == 3
MaxCustomers == 3
MaxOrders == 2
\* rows the database holds in all, over the three tables
MaxRows == 6
MaxUsers == 2
MaxPasswords == 1
MaxTime == 2

(* Program constants *)

PerPage == 2

----------------------------------------------------------------------------
(* Text *)

UpperChars == <<"A", "B", "C", "K", "L", "O", "Y", "Z">>
LowerChars == <<"a", "b", "c", "k", "l", "o", "y", "z">>

\* str.lower() of one character
LowerChar(c) ==
    IF \E i \in 1..Len(UpperChars) : UpperChars[i] = c
    THEN LowerChars[CHOOSE i \in 1..Len(UpperChars) : UpperChars[i] = c]
    ELSE c

LowerText(s) == [i \in 1..Len(s) |-> LowerChar(s[i])]

\* the ORM's field__icontains lookup: a case-insensitive substring match
IContains(hay, needle) ==
    \E i \in 0..(Len(hay) - Len(needle)) :
        SubSeq(LowerText(hay), i + 1, i + Len(needle)) = LowerText(needle)

DigitChars == <<"0", "1", "2", "3", "4", "5", "6", "7", "8", "9">>

RECURSIVE IntText(_)
\* str() of a non-negative integer
IntText(n) ==
    IF n < 10 THEN <<DigitChars[n + 1]>>
    ELSE IntText(n \div 10) \o <<DigitChars[(n % 10) + 1]>>

\* str() of a Decimal with two places, held in cents
DecimalText(c) ==
    IntText(c \div 100) \o <<".">>
        \o <<DigitChars[((c % 100) \div 10) + 1], DigitChars[(c % 10) + 1]>>

----------------------------------------------------------------------------
(* Values the ORM hands to the views *)

None == [k |-> "None", n |-> 0, s |-> <<>>]
IntVal(n) == [k |-> "int", n |-> n, s |-> <<>>]
DecVal(c) == [k |-> "Decimal", n |-> c, s |-> <<>>]
StrVal(s) == [k |-> "str", n |-> 0, s |-> s]

----------------------------------------------------------------------------
(* The database *)

Prices == {500, 1000}
Quantities == {1, 2}
RowCount == Len(products) + Len(customers) + Len(orders)

\* The customer forms' data: name, email (unique), phone, billing address.
Profiles ==
    { [name |-> <<"A", "l">>, email |-> <<"k", "@">>,
       phone |-> <<"1">>, billing_address |-> <<"x">>],
      [name |-> <<"B", "o">>, email |-> <<"a", "L">>,
       phone |-> <<"2">>, billing_address |-> <<"y">>],
      [name |-> <<"C", "y">>, email |-> <<"l", "@">>,
       phone |-> <<"3">>, billing_address |-> <<"z">>] }

Searches == { <<>>, <<"A", "L">>, <<"o">>, <<"z">> }

Range(f) == {f[i] : i \in DOMAIN f}

ProductBySlug(slug) ==
    IF \E i \in 1..Len(products) : products[i].slug = slug
    THEN products[CHOOSE i \in 1..Len(products) : products[i].slug = slug]
    ELSE None

CustomerById(pk) ==
    IF \E i \in 1..Len(customers) : customers[i].id = pk
    THEN customers[CHOOSE i \in 1..Len(customers) : customers[i].id = pk]
    ELSE None

OrdersOf(pk) == SelectSeq(orders, LAMBDA o : o.customer = pk)

RECURSIVE SumRevenue(_)
\* the sum of quantity * product.price over order rows, in cents
SumRevenue(rows) ==
    IF rows = <<>> THEN 0
    ELSE Head(rows).quantity * ProductBySlug(Head(rows).product).price
             + SumRevenue(Tail(rows))

RECURSIVE SumQuantity(_)
SumQuantity(rows) ==
    IF rows = <<>> THEN 0 ELSE Head(rows).quantity + SumQuantity(Tail(rows))

RECURSIVE SumPrice(_)
SumPrice(rows) ==
    IF rows = <<>> THEN 0 ELSE Head(rows).price + SumPrice(Tail(rows))

\* the sum with no rows counted as zero (a Coalesce the queries do not have)
RevenueOrZero(rows) == DecVal(SumRevenue(rows))

\* Sum(F('quantity') * F('product__price')) over order rows: SQL SUM is NULL
\* over no rows, a Decimal otherwise
RevenueAggregate(rows) ==
    IF rows = <<>> THEN None ELSE DecVal(SumRevenue(rows))

\* annotate(total_revenue=Sum(F('order__quantity') * F('order__product__price')))
\* on one Customer row: the LEFT JOIN to its orders, grouped by the customer
AnnotateRevenue(c) ==
    [id |-> c.id, name |-> c.name, email |-> c.email, phone |-> c.phone,
     billing_address |-> c.billing_address,
     total_revenue |-> RevenueAggregate(OrdersOf(c.id))]

AnnotatedCustomers(rows) == [i \in 1..Len(rows) |-> AnnotateRevenue(rows[i])]

\* Sum('quantity') over order rows
QuantityAggregate(rows) ==
    IF rows = <<>> THEN None ELSE IntVal(SumQuantity(rows))

\* Avg('price') over product rows, kept exact as sum / count
PriceAverage(rows) ==
    IF rows = <<>> THEN None
    ELSE [k |-> "Decimal", n |-> SumPrice(rows), s |-> <<>>, d |-> Len(rows)]

----------------------------------------------------------------------------
(* Responses *)

Render(template, ctx) ==
    [status |-> 200, kind |-> "render", target |-> template, ctx |-> ctx]
Redirect(name) ==
    [status |-> 302, kind |-> "redirect", target |-> name, ctx |-> <<>>]
Http404 ==
    [status |-> 404, kind |-> "Http404", target |-> "", ctx |-> <<>>]
\* an exception no handler catches: the request fails with a server error
Raise(exception) ==
    [status |-> 500, kind |-> "raise", target |-> exception, ctx |-> <<>>]

----------------------------------------------------------------------------
(* django.core.paginator.Paginator, as the views use it *)

MissingParam == [k |-> "missing", n |-> 0]
EmptyParam == [k |-> "empty", n |-> 0]
TextParam == [k |-> "text", n |-> 0]
LastParam == [k |-> "last", n |-> 0]
IntParam(n) == [k |-> "int", n |-> n]

\* the values of ?page= that are tried: absent, '', 'abc', 'last', an integer
PageParams ==
    {MissingParam, EmptyParam, TextParam, LastParam}
        \cup {IntParam(n) : n \in -1..3}

Min(a, b) == IF a < b THEN a ELSE b

\* a page count that adds a page instead of rounding up
PagesOffByOne(count) == count \div PerPage + 1

\* Paginator.num_pages, with allow_empty_first_page
NumPages(count) ==
    IF count = 0 THEN 1 ELSE (count + PerPage - 1) \div PerPage

\* Paginator.validate_number
ValidateNumber(param, count) ==
    IF param.k # "int" THEN [error |-> "PageNotAnInteger", n |-> 0]
    ELSE IF param.n < 1 THEN [error |-> "EmptyPage", n |-> 0]
    ELSE IF param.n > NumPages(count) THEN [error |-> "EmptyPage", n |-> 0]
    ELSE [error |-> "", n |-> param.n]

\* Paginator.page, for a valid number
Page(rows, number) ==
    [number |-> number,
     num_pages |-> NumPages(Len(rows)),
     object_list |-> SubSeq(rows, (number - 1) * PerPage + 1,
                            Min(number * PerPage, Len(rows)))]

\* Paginator.get_page: not an integer gives page 1, an empty page the last
GetPage(rows, param) ==
    LET v == ValidateNumber(param, Len(rows))
    IN  IF v.error = "PageNotAnInteger" THEN Page(rows, 1)
        ELSE IF v.error = "EmptyPage" THEN Page(rows, NumPages(Len(rows)))
        ELSE Page(rows, v.n)

\* MultipleObjectMixin.paginate_queryset: [error, page]
PaginateQueryset(rows, param) ==
    LET page == IF param.k \in {"missing", "empty"} THEN IntParam(1) ELSE param
        number == IF page.k = "int" THEN page
                  ELSE IF page.k = "last" THEN IntParam(NumPages(Len(rows)))
                  ELSE TextParam
        v == ValidateNumber(number, Len(rows))
    IN  IF number.k # "int" \/ v.error # ""
        THEN [error |-> "Http404", page |-> Page(rows, 1)]
        ELSE [error |-> "", page |-> Page(rows, v.n)]

----------------------------------------------------------------------------
(* Product views *)

Request(view, method, args) == [view |-> view, method |-> method, args |-> args]

\* between requests: the last response has been sent
NoRequest == Request("", "", <<>>)
NoResponse == [status |-> 0, kind |-> "", target |-> "", ctx |-> <<>>]
Idle == req = NoRequest

Slugs == 1..(MaxProducts + 1)
CustomerIds == 1..(MaxCustomers + 1)

\* a submitted form: invalid, or valid with its cleaned data
InvalidForm == [valid |-> FALSE, data |-> <<>>]
ValidForm(data) == [valid |-> TRUE, data |-> data]
ProductForms == {InvalidForm} \cup {ValidForm(p) : p \in Prices}
CustomerForms == {InvalidForm} \cup {ValidForm(p) : p \in Profiles}

\* index
index(page) ==
    Render("blog/index.html", [page_obj |-> GetPage(products, page)])

\* the products of the page shown
PageProducts(page_obj) == page_obj.object_list

\* the products whose orders ProductListTemplateView sums: the queryset
\* `products` (Product.objects.all()), not the page's object_list
TotalQuantityProducts(page_obj) == products

\* ProductListTemplateView.get_context_data
ProductListTemplateView(page) ==
    LET page_obj == GetPage(products, page)
        of == Range(TotalQuantityProducts(page_obj))
        rows == SelectSeq(orders, LAMBDA o : \E p \in of : p.slug = o.product)
    IN  Render("blog/product/index.html",
               [page_obj |-> page_obj,
                total_quantity |-> QuantityAggregate(rows),
                average_price |-> PriceAverage(products)])

\* Product.objects.get(slug=slug): the row, or Product.DoesNotExist
ProductGet(slug) ==
    IF ProductBySlug(slug) = None
    THEN [error |-> "Product.DoesNotExist", row |-> None]
    ELSE [error |-> "", row |-> ProductBySlug(slug)]

\* ProductDetailTemplateView.get_context_data
ProductDetailTemplateView(slug) ==
    LET got == ProductGet(slug)
    IN  IF got.error # "" THEN Raise(got.error)
        ELSE Render("blog/product/product-detail.html", [product |-> got.row])

\* ProductUpdateView.get
ProductUpdateView_get(slug) ==
    LET got == ProductGet(slug)
    IN  IF got.error # "" THEN Raise(got.error)
        ELSE Render("blog/product/update-product.html", [form |-> got.row])

ProductIndexGet ==
    /\ Idle
    /\ UNCHANGED authVars
    /\ \E page \in PageParams :
        /\ req' = Request("index", "GET", [page |-> page])
        /\ resp' = index(page)
        /\ UNCHANGED <<products, customers, nextCustomer, orders>>

ProductListGet ==
    /\ Idle
    /\ UNCHANGED authVars
    /\ \E page \in PageParams :
        /\ req' = Request("ProductListTemplateView", "GET", [page |-> page])
        /\ resp' = ProductListTemplateView(page)
        /\ UNCHANGED <<products, customers, nextCustomer, orders>>

ProductDetailGet ==
    /\ Idle
    /\ UNCHANGED authVars
    /\ \E slug \in Slugs :
        /\ req' = Request("ProductDetailTemplateView", "GET", [slug |-> slug])
        /\ resp' = ProductDetailTemplateView(slug)
        /\ UNCHANGED <<products, customers, nextCustomer, orders>>

\* ProductAddTemplateView.post
ProductAddPost ==
    /\ Idle
    /\ UNCHANGED authVars
    /\ \E form \in ProductForms :
        /\ req' = Request("ProductAddTemplateView", "POST", [form |-> form])
        /\ IF form.valid
           THEN /\ Len(products) < MaxProducts
                /\ RowCount < MaxRows
                /\ products' = Append(products,
                       [slug |-> Len(products) + 1, price |-> form.data])
                /\ resp' = Redirect("index")
           ELSE /\ products' = products
                /\ resp' = Render("blog/product/add-product.html",
                                  [form |-> form])
        /\ UNCHANGED <<customers, nextCustomer, orders>>

ProductUpdateGet ==
    /\ Idle
    /\ UNCHANGED authVars
    /\ \E slug \in Slugs :
        /\ req' = Request("ProductUpdateView", "GET", [slug |-> slug])
        /\ resp' = ProductUpdateView_get(slug)
        /\ UNCHANGED <<products, customers, nextCustomer, orders>>

\* ProductUpdateView.post
ProductUpdatePost ==
    /\ Idle
    /\ UNCHANGED authVars
    /\ \E slug \in Slugs, form \in ProductForms :
        /\ req' = Request("ProductUpdateView", "POST",
                          [slug |-> slug, form |-> form])
        /\ LET got == ProductGet(slug)
           IN  IF got.error # ""
               THEN /\ resp' = Raise(got.error)
                    /\ products' = products
               ELSE IF form.valid
               THEN /\ products' =
                        [i \in 1..Len(products) |->
                            IF products[i].slug = slug
                            THEN [products[i] EXCEPT !.price = form.data]
                            ELSE products[i]]
                    /\ resp' = Redirect("index")
               ELSE /\ products' = products
                    /\ resp' = Render("blog/product/update-product.html",
                                      [form |-> form])
        /\ UNCHANGED <<customers, nextCustomer, orders>>

----------------------------------------------------------------------------
(* Customer views *)

\* ?search=: absent, or a text (possibly empty)
NoSearch == [given |-> FALSE, s |-> <<>>]
Search(s) == [given |-> TRUE, s |-> s]
SearchParams == {NoSearch} \cup {Search(s) : s \in Searches}

\* the filter on the name alone
NameFilter(c, search_query) == IContains(c.name, search_query)

\* Q(name__icontains=search_query) | Q(email__icontains=search_query)
SearchFilter(c, search_query) ==
    IContains(c.name, search_query) \/ IContains(c.email, search_query)

\* CustomersListView.get_queryset
CustomersListView_get_queryset(search) ==
    LET queryset ==
            IF search.given /\ search.s # <<>>
            THEN SelectSeq(customers, LAMBDA c : SearchFilter(c, search.s))
            ELSE customers
    IN  AnnotatedCustomers(queryset)

\* CustomersListView: BaseListView.get, paginate_queryset, get_context_data
CustomersListView(search, page) ==
    LET paged == PaginateQueryset(CustomersListView_get_queryset(search), page)
    IN  IF paged.error # "" THEN Http404
        ELSE Render("blog/customer/customers.html",
                    [page_obj |-> paged.page,
                     total_customers |-> Len(customers),
                     total_revenue |-> RevenueAggregate(orders)])

\* get_object_or_404(Customer, id=pk) and SingleObjectMixin.get_object: the
\* lookup failure becomes Http404
GetObjectOr404(pk) ==
    IF CustomerById(pk) = None
    THEN [error |-> "Http404", row |-> None]
    ELSE [error |-> "", row |-> CustomerById(pk)]

\* Customer.objects.get(id=pk): the row, or Customer.DoesNotExist
CustomerGet(pk) ==
    IF CustomerById(pk) = None
    THEN [error |-> "Customer.DoesNotExist", row |-> None]
    ELSE [error |-> "", row |-> CustomerById(pk)]

\* CustomerDetailView.get_object
CustomerDetailView_get_object(pk) == GetObjectOr404(pk)

\* CustomerDetailView.get_context_data, after BaseDetailView.get
CustomerDetailView(pk) ==
    LET got == CustomerDetailView_get_object(pk)
    IN  IF got.error # "" THEN Http404
        ELSE Render("blog/customer/customer-details.html",
                    [customer |-> got.row,
                     total_revenue |-> RevenueAggregate(OrdersOf(got.row.id))])

\* CustomerDeleteView keeps DeleteView's get_object
CustomerDeleteView_get_object(pk) == GetObjectOr404(pk)

\* UpdateView's own get_object, had the view not replaced it
InheritedGetObject(pk) == GetObjectOr404(pk)

\* CustomerUpdateView.get_object
CustomerUpdateView_get_object(pk) == CustomerGet(pk)

\* what a lookup failure becomes: Http404 is answered with the 404 page, any
\* other exception is not handled
LookupFailure(error) == IF error = "Http404" THEN Http404 ELSE Raise(error)

\* the Order rows left when Customer pk is deleted (Order.customer cascades)
OrdersAfterDelete(pk) == SelectSeq(orders, LAMBDA o : o.customer # pk)

EmailTaken(email, except) ==
    \E i \in 1..Len(customers) :
        customers[i].email = email /\ customers[i].id # except

CustomersListGet ==
    /\ Idle
    /\ UNCHANGED authVars
    /\ \E search \in SearchParams, page \in PageParams :
        /\ req' = Request("CustomersListView", "GET",
                          [search |-> search, page |-> page])
        /\ resp' = CustomersListView(search, page)
        /\ UNCHANGED <<products, customers, nextCustomer, orders>>

\* CustomersAddListView.post; the form rejects an email already in use
CustomersAddPost ==
    /\ Idle
    /\ UNCHANGED authVars
    /\ \E form \in CustomerForms :
        /\ req' = Request("CustomersAddListView", "POST", [form |-> form])
        /\ IF form.valid /\ ~EmailTaken(form.data.email, 0)
           THEN /\ nextCustomer <= MaxCustomers
                /\ RowCount < MaxRows
                /\ customers' = Append(customers,
                       [id |-> nextCustomer, name |-> form.data.name,
                        email |-> form.data.email, phone |-> form.data.phone,
                        billing_address |-> form.data.billing_address])
                /\ nextCustomer' = nextCustomer + 1
                /\ resp' = Redirect("customers")
           ELSE /\ UNCHANGED <<customers, nextCustomer>>
                /\ resp' = Render("blog/customer/add-customer.html",
                                  [form |-> form])
        /\ UNCHANGED <<products, orders>>

CustomerDetailGet ==
    /\ Idle
    /\ UNCHANGED authVars
    /\ \E pk \in CustomerIds :
        /\ req' = Request("CustomerDetailView", "GET", [pk |-> pk])
        /\ resp' = CustomerDetailView(pk)
        /\ UNCHANGED <<products, customers, nextCustomer, orders>>

\* CustomerDeleteView.get: DeletionMixin.delete
CustomerDeleteGet ==
    /\ Idle
    /\ UNCHANGED authVars
    /\ \E pk \in CustomerIds :
        /\ req' = Request("CustomerDeleteView", "GET", [pk |-> pk])
        /\ LET got == CustomerDeleteView_get_object(pk)
           IN  IF got.error # ""
               THEN /\ resp' = LookupFailure(got.error)
                    /\ UNCHANGED <<customers, orders>>
               ELSE /\ customers' = SelectSeq(customers, LAMBDA c : c.id # pk)
                    /\ orders' = OrdersAfterDelete(pk)
                    /\ resp' = Redirect("customers")
        /\ UNCHANGED <<products, nextCustomer>>

\* CustomerUpdateView: BaseUpdateView.get
CustomerUpdateGet ==
    /\ Idle
    /\ UNCHANGED authVars
    /\ \E pk \in CustomerIds :
        /\ req' = Request("CustomerUpdateView", "GET", [pk |-> pk])
        /\ LET got == CustomerUpdateView_get_object(pk)
           IN  IF got.error # ""
               THEN resp' = LookupFailure(got.error)
               ELSE resp' = Render("blog/customer/update-customer.html",
                                   [form |-> got.row])
        /\ UNCHANGED <<products, customers, nextCustomer, orders>>

\* CustomerUpdateView: BaseUpdateView.post, form_valid, get_success_url
CustomerUpdatePost ==
    /\ Idle
    /\ UNCHANGED authVars
    /\ \E pk \in CustomerIds, form \in CustomerForms :
        /\ req' = Request("CustomerUpdateView", "POST",
                          [pk |-> pk, form |-> form])
        /\ LET got == CustomerUpdateView_get_object(pk)
           IN  IF got.error # ""
               THEN /\ resp' = LookupFailure(got.error)
                    /\ customers' = customers
               ELSE IF form.valid /\ ~EmailTaken(form.data.email, pk)
               THEN /\ customers' =
                        [i \in 1..Len(customers) |->
                            IF customers[i].id = pk
                            THEN [id |-> pk, name |-> form.data.name,
                                  email |-> form.data.email,
                                  phone |-> form.data.phone,
                                  billing_address |-> form.data.billing_address]
                            ELSE customers[i]]
                    /\ resp' = Redirect("customers_detail")
               ELSE /\ customers' = customers
                    /\ resp' = Render("blog/customer/update-customer.html",
                                      [form |-> form])
        /\ UNCHANGED <<products, nextCustomer, orders>>

----------------------------------------------------------------------------
(* Orders: no view of views.py writes them; rows come and go through the   *)
(* Order model                                                             *)

OrderCreate ==
    /\ Idle
    /\ UNCHANGED authVars
    /\ Len(orders) < MaxOrders
    /\ RowCount < MaxRows
    /\ \E i \in 1..Len(customers), j \in 1..Len(products),
          q \in Quantities :
           orders' = Append(orders,
               [customer |-> customers[i].id, product |-> products[j].slug,
                quantity |-> q])
    /\ UNCHANGED <<products, customers, nextCustomer, req, resp>>

OrderDelete ==
    /\ Idle
    /\ UNCHANGED authVars
    /\ \E i \in 1..Len(orders) :
           orders' = SubSeq(orders, 1, i - 1) \o SubSeq(orders, i + 1, Len(orders))
    /\ UNCHANGED <<products, customers, nextCustomer, req, resp>>

----------------------------------------------------------------------------
(* ExportDataView *)

Fields == <<"id", "name", "email", "phone", "billing_address", "total_revenue">>

\* ?format=: absent, or a text
NoFormat == [given |-> FALSE, value |-> ""]
Format(f) == [given |-> TRUE, value |-> f]
FormatParams == {NoFormat} \cup {Format(f) : f \in {"csv", "json", "xlsx", "xml", ""}}

\* the values one exported customer contributes, in column order
RowValues(c) ==
    <<IntVal(c.id), StrVal(c.name), StrVal(c.email), StrVal(c.phone),
      StrVal(c.billing_address), c.total_revenue>>

\* csv.writer: None is written as the empty field, anything else as str()
CsvField(v) ==
    CASE v.k = "None" -> <<>>
      [] v.k = "int" -> IntText(v.n)
      [] v.k = "Decimal" -> DecimalText(v.n)
      [] OTHER -> v.s

\* json.dumps's default encoder: it has no encoding for Decimal
JsonValue(v) ==
    CASE v.k = "None" -> [k |-> "null", n |-> 0, s |-> <<>>]
      [] v.k = "int" -> [k |-> "number", n |-> v.n, s |-> <<>>]
      [] v.k = "str" -> [k |-> "string", n |-> 0, s |-> v.s]
      [] OTHER -> [k |-> "TypeError", n |-> 0, s |-> <<>>]

\* an openpyxl cell: empty, numeric (int, Decimal) or string
XlsxCell(v) ==
    CASE v.k = "None" -> [k |-> "empty", n |-> 0, s |-> <<>>, places |-> 0]
      [] v.k = "int" -> [k |-> "n", n |-> v.n, s |-> <<>>, places |-> 0]
      [] v.k = "Decimal" -> [k |-> "n", n |-> v.n, s |-> <<>>, places |-> 2]
      [] OTHER -> [k |-> "s", n |-> 0, s |-> v.s, places |-> 0]

ExportRows(Cell(_)) ==
    LET rows == AnnotatedCustomers(customers)
    IN  [i \in 1..Len(rows) |->
            [j \in 1..Len(Fields) |-> Cell(RowValues(rows[i])[j])]]

File(name, content_type, serializer, rows) ==
    [status |-> 200, kind |-> "file", target |-> name,
     ctx |-> [content_type |-> content_type, serializer |-> serializer,
              reads |-> {"Customer", "Order", "Product"},
              header |-> Fields, rows |-> rows]]

\* ExportDataView.export_csv
export_csv ==
    File("customers.csv", "text/csv", "export_csv", ExportRows(CsvField))

\* ExportDataView.export_json
export_json ==
    LET data == ExportRows(JsonValue)
    IN  IF \E i \in 1..Len(data) : \E j \in 1..Len(Fields) :
               data[i][j].k = "TypeError"
        THEN [status |-> 500, kind |-> "raise", target |-> "TypeError",
              ctx |-> [content_type |-> "application/json",
                       serializer |-> "export_json",
                       reads |-> {"Customer", "Order", "Product"},
                       header |-> Fields, rows |-> <<>>]]
        ELSE File("customers.json", "application/json", "export_json", data)

\* ExportDataView.export_xlsx
export_xlsx ==
    File("customers.xlsx", "application/ms-excel", "export_xlsx",
         ExportRows(XlsxCell))

\* the response of the else branch of ExportDataView.get
BadFormat ==
    [status |-> 404, kind |-> "content", target |-> "Bad requests",
     ctx |-> [content_type |-> "text/html", serializer |-> "",
              reads |-> {}, header |-> <<>>, rows |-> <<>>]]

\* a dispatch whose last branch is the csv export
ExportOrCsv(param) ==
    LET format == IF param.given THEN param.value ELSE "csv"
    IN  IF format = "json" THEN export_json
        ELSE IF format = "xlsx" THEN export_xlsx
        ELSE export_csv

\* ExportDataView.get
ExportDataView_get(param) ==
    LET format == IF param.given THEN param.value ELSE "csv"
    IN  IF format = "csv" THEN export_csv
        ELSE IF format = "json" THEN export_json
        ELSE IF format = "xlsx" THEN export_xlsx
        ELSE BadFormat

ExportGet ==
    /\ Idle
    /\ UNCHANGED authVars
    /\ \E param \in FormatParams :
        /\ req' = Request("ExportDataView", "GET", [format |-> param])
        /\ resp' = ExportDataView_get(param)
        /\ UNCHANGED <<products, customers, nextCustomer, orders>>

----------------------------------------------------------------------------
(* Registration and email verification: blog/views/auth.py *)

\* the bytes of a text (str.encode) and the text of ASCII bytes
Ord(c) ==
    IF \E i \in 1..10 : DigitChars[i] = c
    THEN 47 + (CHOOSE i \in 1..10 : DigitChars[i] = c)
    ELSE 97
Chr(b) == IF b \in 48..57 THEN DigitChars[b - 47] ELSE "a"

\* force_bytes(user.id): the decimal digits of the id
force_bytes(n) == [i \in 1..Len(IntText(n)) |-> Ord(IntText(n)[i])]

RECURSIVE urlsafe_base64_encode(_)
\* bytes to base64 digits (numbers 0..63), the '=' padding stripped
urlsafe_base64_encode(bytes) ==
    IF Len(bytes) = 0 THEN <<>>
    ELSE IF Len(bytes) = 1
    THEN <<bytes[1] \div 4, (bytes[1] % 4) * 16>>
    ELSE IF Len(bytes) = 2
    THEN LET v == bytes[1] * 256 + bytes[2]
         IN  <<v \div 1024, (v \div 16) % 64, (v % 16) * 4>>
    ELSE LET v == bytes[1] * 65536 + bytes[2] * 256 + bytes[3]
         IN  <<v \div 262144, (v \div 4096) % 64, (v \div 64) % 64, v % 64>>
                 \o urlsafe_base64_encode(SubSeq(bytes, 4, Len(bytes)))

RECURSIVE Base64Bytes(_)
\* the bytes of base64 digits whose count is not 1 mod 4
Base64Bytes(digits) ==
    IF Len(digits) = 0 THEN <<>>
    ELSE IF Len(digits) = 2
    THEN <<(digits[1] * 64 + digits[2]) \div 16>>
    ELSE IF Len(digits) = 3
    THEN LET v == digits[1] * 4096 + digits[2] * 64 + digits[3]
         IN  <<v \div 1024, (v \div 4) % 256>>
    ELSE LET v == digits[1] * 262144 + digits[2] * 4096
                      + digits[3] * 64 + digits[4]
         IN  <<v \div 65536, (v \div 256) % 256, v % 256>>
                 \o Base64Bytes(SubSeq(digits, 5, Len(digits)))

\* urlsafe_base64_decode: a count of digits no padding completes is a
\* binascii.Error, raised as ValueError
urlsafe_base64_decode(digits) ==
    IF Len(digits) % 4 = 1
    THEN [error |-> "ValueError", bytes |-> <<>>]
    ELSE [error |-> "", bytes |-> Base64Bytes(digits)]

\* force_str: bytes are decoded as UTF-8; a lone byte above 127 is no UTF-8
force_str(bytes) ==
    IF \E i \in 1..Len(bytes) : bytes[i] > 127
    THEN [error |-> "DjangoUnicodeDecodeError", text |-> <<>>]
    ELSE [error |-> "", text |-> [i \in 1..Len(bytes) |-> Chr(bytes[i])]]

RECURSIVE DigitsValue(_)
DigitsValue(text) ==
    IF text = <<>> THEN 0
    ELSE 10 * DigitsValue(SubSeq(text, 1, Len(text) - 1))
             + (Ord(text[Len(text)]) - 48)

\* User.objects.get(pk=uid), uid a text: the key is converted with int()
UserGet(uid) ==
    IF uid = <<>> \/ \E i \in 1..Len(uid) : Ord(uid[i]) \notin 48..57
    THEN [error |-> "ValueError", pk |-> 0]
    ELSE IF DigitsValue(uid) \notin 1..Len(users)
    THEN [error |-> "User.DoesNotExist", pk |-> 0]
    ELSE [error |-> "", pk |-> DigitsValue(uid)]

\* the exception classes each exception is an instance of
Classes(error) ==
    IF error = "DjangoUnicodeDecodeError"
    THEN {"DjangoUnicodeDecodeError", "UnicodeDecodeError", "ValueError"}
    ELSE {error}

\* the except clause with ValueError left out
CaughtWithoutValueError == {"TypeError", "OverflowError", "User.DoesNotExist"}

\* except (TypeError, ValueError, OverflowError, User.DoesNotExist)
CaughtExceptions ==
    {"TypeError", "ValueError", "OverflowError", "User.DoesNotExist"}

\* the try block of VerifyEmailConfirmView.get: the user's key, 0 for
\* `user = None`, or the exception that leaves the handler
LookupUser(uidb64) ==
    LET decoded == urlsafe_base64_decode(uidb64)
        uid == force_str(decoded.bytes)
        got == UserGet(uid.text)
        error == IF decoded.error # "" THEN decoded.error
                 ELSE IF uid.error # "" THEN uid.error
                 ELSE got.error
    IN  IF error = "" THEN [error |-> "", pk |-> got.pk]
        ELSE IF Classes(error) \cap CaughtExceptions # {}
        THEN [error |-> "", pk |-> 0]
        ELSE [error |-> error, pk |-> 0]

\* PASSWORD_RESET_TIMEOUT, in ticks of the clock
Timeout == 1

\* the value the token generator signs: the user's key, password and email,
\* and the time of issue
HashValue(user, ts) == <<user.id, user.password, user.email, ts>>

\* account_activation_token.make_token
make_token(user) == [ts |-> now, hash |-> HashValue(user, now)]

\* account_activation_token.check_token
check_token(user, token) ==
    /\ token.hash = HashValue(user, token.ts)
    /\ now - token.ts <= Timeout

\* a token nobody issued: no signature of it verifies
ForgedToken == [ts |-> 0, hash |-> <<>>]

Emails == {<<"a", "@">>, <<"b", "@">>}
RegisterForms == {InvalidForm} \cup {ValidForm(e) : e \in Emails}

AuthIdle == areq = NoRequest

UserEmailTaken(email) == \E i \in 1..Len(users) : users[i].email = email

\* the user left as create_user made it
RegisteredAsCreated == TRUE

\* is_active as RegisterView.post saves it
RegisteredActive == FALSE

\* RegisterView.post; the form rejects an email already registered, and the
\* mail transport may fail (email_message.send() raises)
RegisterPost ==
    /\ AuthIdle
    /\ UNCHANGED shopVars
    /\ \E form \in RegisterForms, delivered \in BOOLEAN :
        /\ areq' = Request("RegisterView", "POST", [form |-> form])
        /\ IF form.valid /\ ~UserEmailTaken(form.data)
           THEN /\ Len(users) < MaxUsers
                /\ LET user == [id |-> Len(users) + 1, email |-> form.data,
                                password |-> 0,
                                is_active |-> RegisteredActive,
                                is_staff |-> TRUE, is_superuser |-> TRUE]
                       mail == [sent |-> delivered,
                                uid |-> urlsafe_base64_encode(force_bytes(user.id)),
                                token |-> make_token(user),
                                user |-> user]
                   IN  /\ users' = Append(users, user)
                       /\ outbox' = Append(outbox, mail)
                /\ aresp' = IF delivered THEN Redirect("verify_email_done")
                            ELSE Raise("SMTPException")
           ELSE /\ UNCHANGED <<users, outbox>>
                /\ aresp' = Render("blog/auth/register.html", [form |-> form])
    /\ UNCHANGED now

\* the uidb64 of the links that are tried: the links mailed and those of a
\* key with no user, a digit count no padding completes, digits with spare
\* bits set (they decode as the first link does), a non-numeric text and
\* bytes that are no UTF-8
UidInputs ==
    {urlsafe_base64_encode(force_bytes(n)) : n \in 1..(MaxUsers + 1)}
        \cup {<<12>>, <<12, 17>>, urlsafe_base64_encode(<<97>>),
              urlsafe_base64_encode(<<255>>)}

\* the tokens that are tried: every token mailed, and a forged one
TokenInputs ==
    {outbox[i].token : i \in {j \in 1..Len(outbox) : outbox[j].sent}}
        \cup {ForgedToken}

InvalidLink ==
    Render("blog/auth/email/verify-email-confirm.html",
           [warning |-> "The link is invalid."])

\* VerifyEmailConfirmView.get
VerifyEmailConfirmGet ==
    /\ AuthIdle
    /\ UNCHANGED shopVars
    /\ \E uidb64 \in UidInputs, token \in TokenInputs :
        /\ areq' = Request("VerifyEmailConfirmView", "GET",
                           [uidb64 |-> uidb64, token |-> token])
        /\ LET found == LookupUser(uidb64)
           IN  IF found.error # ""
               THEN /\ aresp' = Raise(found.error)
                    /\ users' = users
               ELSE IF found.pk # 0 /\ check_token(users[found.pk], token)
               THEN /\ users' = [users EXCEPT ![found.pk].is_active = TRUE]
                    /\ aresp' = Redirect("verify_email_complete")
               ELSE /\ users' = users
                    /\ aresp' = InvalidLink
    /\ UNCHANGED <<outbox, now>>

\* a user's email or password changes (User.save, outside these views); a
\* new password is a new hash
UserChange ==
    /\ AuthIdle
    /\ UNCHANGED shopVars
    /\ \E i \in 1..Len(users) :
        \/ /\ users[i].password < MaxPasswords
           /\ users' = [users EXCEPT ![i].password = @ + 1]
        \/ \E e \in Emails :
            /\ ~UserEmailTaken(e)
            /\ users' = [users EXCEPT ![i].email = e]
    /\ UNCHANGED <<outbox, now, areq, aresp>>

\* time passes
Tick ==
    /\ AuthIdle
    /\ UNCHANGED shopVars
    /\ now < MaxTime
    /\ now' = now + 1
    /\ UNCHANGED <<users, outbox, areq, aresp>>

AuthRespond ==
    /\ ~AuthIdle
    /\ UNCHANGED shopVars
    /\ areq' = NoRequest
    /\ aresp' = NoResponse
    /\ UNCHANGED <<users, outbox, now>>

----------------------------------------------------------------------------
(* The shop *)

\* the response is sent and the request is over: no view keeps anything of it
Respond ==
    /\ ~Idle
    /\ UNCHANGED authVars
    /\ req' = NoRequest
    /\ resp' = NoResponse
    /\ UNCHANGED <<products, customers, nextCustomer, orders>>

ShopInit ==
    /\ products = <<>>
    /\ customers = <<>>
    /\ nextCustomer = 1
    /\ orders = <<>>
    /\ req = NoRequest
    /\ resp = NoResponse

AuthInit ==
    /\ users = <<>>
    /\ outbox = <<>>
    /\ now = 0
    /\ areq = NoRequest
    /\ aresp = NoResponse

Init == ShopInit /\ AuthInit

Next ==
    \/ ProductIndexGet
    \/ ProductListGet
    \/ ProductDetailGet
    \/ ProductAddPost
    \/ ProductUpdateGet
    \/ ProductUpdatePost
    \/ CustomersListGet
    \/ CustomersAddPost
    \/ CustomerDetailGet
    \/ CustomerDeleteGet
    \/ CustomerUpdateGet
    \/ CustomerUpdatePost
    \/ ExportGet
    \/ OrderCreate
    \/ OrderDelete
    \/ Respond

Spec == Init /\ [][Next]_vars

AuthNext ==
    \/ RegisterPost
    \/ VerifyEmailConfirmGet
    \/ UserChange
    \/ Tick
    \/ AuthRespond

AuthSpec == Init /\ [][AuthNext]_vars

----------------------------------------------------------------------------
(* Claims about registration and email verification *)

IsVerify(r) == r.view = "VerifyEmailConfirmView"

\* the key of the user a uidb64 decodes to, 0 when it does not decode or
\* decodes to a key with no user
DecodesTo(uidb64) ==
    LET decoded == urlsafe_base64_decode(uidb64)
        uid == force_str(decoded.bytes)
        got == UserGet(uid.text)
    IN  IF decoded.error = "" /\ uid.error = "" /\ got.error = ""
        THEN got.pk ELSE 0

\* C1: a confirmation request whose uidb64 does not decode, or decodes to a
\* key with no user, or whose token check_token rejects for that user,
\* changes no User row, does not raise, and is answered with the confirm
\* page and the warning 'The link is invalid.', not with the redirect.
C1_FailsClosed ==
    [][ (IsVerify(areq')
         /\ LET pk == DecodesTo(areq'.args.uidb64)
            IN  pk = 0 \/ ~check_token(users[pk], areq'.args.token))
        => (users' = users /\ aresp' = InvalidLink) ]_vars

\* C1's case: the link of user 1 with the token mailed to user 2 was tried
C1_Witness ==
    /\ IsVerify(areq)
    /\ Len(users) = 2
    /\ outbox[2].sent
    /\ areq.args.uidb64 = outbox[1].uid
    /\ areq.args.token = outbox[2].token
    /\ aresp = InvalidLink
    /\ ~users[1].is_active

\* user u's mail was delivered and its link is what the request presents
PresentsMailed(r, u) ==
    /\ IsVerify(r)
    /\ outbox[u].sent
    /\ r.args.token = outbox[u].token
    /\ DecodesTo(r.args.uidb64) = u

\* user u's email and password are those of the registration
StateAsRegistered(u) ==
    /\ users[u].email = outbox[u].user.email
    /\ users[u].password = outbox[u].user.password

----------------------------------------------------------------------------
(* Claims about the shop views.  What a view answers on a database is      *)
(* looked at between requests, when every reachable database is met.       *)

RECURSIVE RevenueUpTo(_, _)
\* the sum over the first n orders that are customer pk's of
\* quantity * the product's current price, in cents
RevenueUpTo(pk, n) ==
    IF n = 0 THEN 0
    ELSE RevenueUpTo(pk, n - 1)
             + (IF orders[n].customer = pk
                THEN orders[n].quantity * products[orders[n].product].price
                ELSE 0)

HasOrders(pk) == \E n \in 1..Len(orders) : orders[n].customer = pk
RevenueOf(pk) == RevenueUpTo(pk, Len(orders))

ExportFormats == {"csv", "json", "xlsx"}

\* what a reader of the export finds in a cell, as text (the empty text for
\* an empty csv field, a JSON null and an empty sheet cell)
CellText(format, cell) ==
    IF format = "csv" THEN cell
    ELSE IF format = "json"
    THEN (CASE cell.k = "null" -> <<>>
            [] cell.k = "number" -> IntText(cell.n)
            [] OTHER -> cell.s)
    ELSE (CASE cell.k = "empty" -> <<>>
            [] cell.k = "n" /\ cell.places = 0 -> IntText(cell.n)
            [] cell.k = "n" -> DecimalText(cell.n)
            [] OTHER -> cell.s)

Exported(format) == ExportDataView_get(Format(format))

\* the texts of the i-th exported customer, in column order
ExportedTexts(format, i) ==
    [j \in 1..Len(Fields) |-> CellText(format, Exported(format).ctx.rows[i][j])]

\* C3: on every database the csv, json and xlsx exports each complete, and
\* list the same customers in the same order with the same values of id,
\* name, email, phone, billing_address and total_revenue.
C3_ExportsAgree ==
    Idle =>
        /\ \A f \in ExportFormats :
            /\ Exported(f).status = 200
            /\ Exported(f).ctx.header = Fields
            /\ Len(Exported(f).ctx.rows) = Len(customers)
        /\ \A i \in 1..Len(customers) :
            /\ ExportedTexts("csv", i)[1] = IntText(customers[i].id)
            /\ ExportedTexts("json", i) = ExportedTexts("csv", i)
            /\ ExportedTexts("xlsx", i) = ExportedTexts("csv", i)

IsExport(r) == r.view = "ExportDataView"

\* C4: the export dispatches on ?format=: absent is csv; csv, json and xlsx
\* invoke their own serializer; any other value is answered with status 404
\* and the body 'Bad requests', no serializer invoked, no Customer read.
C4_ExportDispatch ==
    IsExport(req) =>
        LET param == req.args.format
        IN  /\ ~param.given => resp.ctx.serializer = "export_csv"
            /\ \A f \in ExportFormats :
                   (param.given /\ param.value = f)
                       => (resp.ctx.serializer = "export_" \o f
                           /\ "Customer" \in resp.ctx.reads)
            /\ (param.given /\ param.value \notin ExportFormats)
                   => /\ resp.status = 404
                      /\ resp.target = "Bad requests"
                      /\ resp.ctx.serializer = ""
                      /\ resp.ctx.reads = {}
                      /\ resp.ctx.rows = <<>>

\* C4's case: ?format=xml was asked of a database that holds customers
C4_Witness ==
    /\ IsExport(req)
    /\ req.args.format = Format("xml")
    /\ resp.status = 404
    /\ Len(customers) > 0

\* the row of customer pk in the unfiltered customer list
ListedRow(pk) ==
    LET rows == CustomersListView_get_queryset(NoSearch)
    IN  rows[CHOOSE i \in 1..Len(rows) : rows[i].id = pk]

\* C5: for every customer with at least one order, the customer list, the
\* customer detail view and every export format report as total_revenue the
\* sum over the customer's orders of quantity * the product's current price.
C5_RevenueEverywhere ==
    Idle =>
        \A i \in 1..Len(customers) :
            LET pk == customers[i].id
            IN  HasOrders(pk) =>
                    /\ ListedRow(pk).total_revenue = DecVal(RevenueOf(pk))
                    /\ CustomerDetailView(pk).ctx.total_revenue
                           = DecVal(RevenueOf(pk))
                    /\ \A f \in ExportFormats :
                        /\ Exported(f).status = 200
                        /\ ExportedTexts(f, i)[6] = DecimalText(RevenueOf(pk))

\* C5 without the json export: the list, the detail view, csv and xlsx
C5_RevenueOutsideJson ==
    Idle =>
        \A i \in 1..Len(customers) :
            LET pk == customers[i].id
            IN  HasOrders(pk) =>
                    /\ ListedRow(pk).total_revenue = DecVal(RevenueOf(pk))
                    /\ CustomerDetailView(pk).ctx.total_revenue
                           = DecVal(RevenueOf(pk))
                    /\ \A f \in {"csv", "xlsx"} :
                        /\ Exported(f).status = 200
                        /\ ExportedTexts(f, i)[6] = DecimalText(RevenueOf(pk))

----------------------------------------------------------------------------
(* Pagination *)

\* the last page of `count` rows: the first that reaches the end of them
LastPage(count) ==
    CHOOSE n \in 1..(count + 1) :
        /\ n * PerPage >= count
        /\ n = 1 \/ (n - 1) * PerPage < count

\* the rows of page `number`
PageRows(rows, number) ==
    [i \in 1..(Min(number * PerPage, Len(rows)) - (number - 1) * PerPage)
        |-> rows[(number - 1) * PerPage + i]]

IsIndex(r) == r.view = "index"
IsCustomersList(r) == r.view = "CustomersListView"

\* the rows the last request paginated
Paginated ==
    IF IsIndex(req) THEN products
    ELSE CustomersListView_get_queryset(req.args.search)

\* C6: for the product index and for the customer list, a request with any
\* page parameter (missing, non-numeric, zero, negative, beyond the last
\* page) is answered with a normal page, clamped to the nearest valid page;
\* with 3 products, page 2 of the product index holds exactly 1 item.
C6_PaginationNeverErrors ==
    (IsIndex(req) \/ IsCustomersList(req)) =>
        LET param == req.args.page
            last == LastPage(Len(Paginated))
        IN  /\ resp.status = 200
            /\ resp.kind = "render"
            /\ resp.ctx.page_obj.number \in 1..last
            /\ param.k = "int" =>
                   resp.ctx.page_obj.number =
                       (IF param.n < 1 THEN 1
                        ELSE IF param.n > last THEN last ELSE param.n)
            /\ (IsIndex(req) /\ Len(products) = 3 /\ param = IntParam(2))
                   => Len(resp.ctx.page_obj.object_list) = 1

\* C6 as the code has it: the product index answers every page parameter
\* with a normal page, page 1 for a missing or non-numeric parameter and the
\* last page for zero, a negative number or a number beyond the last page;
\* the customer list answers a missing or empty parameter with page 1,
\* 'last' with the last page and a number of an existing page with that
\* page, and every other parameter (non-numeric, zero, negative, beyond the
\* last page) with a 404; with 3 products, page 2 of the product index
\* holds exactly 1 item.
C6_PaginationAsBuilt ==
    LET param == req.args.page
        last == LastPage(Len(Paginated))
        inRange == param.k = "int" /\ param.n \in 1..last
    IN  /\ IsIndex(req) =>
            LET number == IF inRange THEN param.n
                          ELSE IF param.k = "int" THEN last ELSE 1
            IN  /\ resp.status = 200
                /\ resp.kind = "render"
                /\ resp.ctx.page_obj.number = number
                /\ resp.ctx.page_obj.object_list = PageRows(products, number)
                /\ (Len(products) = 3 /\ param = IntParam(2))
                       => Len(resp.ctx.page_obj.object_list) = 1
        /\ IsCustomersList(req) =>
            IF inRange \/ param.k \in {"missing", "empty", "last"}
            THEN LET number == IF inRange THEN param.n
                               ELSE IF param.k = "last" THEN last ELSE 1
                 IN  /\ resp.status = 200
                     /\ resp.kind = "render"
                     /\ resp.ctx.page_obj.number = number
                     /\ resp.ctx.page_obj.object_list
                            = PageRows(Paginated, number)
            ELSE resp = Http404

\* C6's case: page 2 of the product index was asked with three products
C6_Witness ==
    /\ IsIndex(req)
    /\ Len(products) = 3
    /\ req.args.page = IntParam(2)
    /\ Len(resp.ctx.page_obj.object_list) = 1

----------------------------------------------------------------------------
(* Search *)

\* str.upper() of one character
UpperChar(c) ==
    IF \E i \in 1..Len(LowerChars) : LowerChars[i] = c
    THEN UpperChars[CHOOSE i \in 1..Len(LowerChars) : LowerChars[i] = c]
    ELSE c

UpperText(s) == [i \in 1..Len(s) |-> UpperChar(s[i])]

\* s is a substring of text, letter case apart
ContainsFolded(text, s) ==
    \E a \in 0..Len(text) : \E b \in a..Len(text) :
        UpperText(SubSeq(text, a + 1, b)) = UpperText(s)

\* the customers a search is to find, in table order
Wanted(search) ==
    IF search.given /\ search.s # <<>>
    THEN SelectSeq(customers,
             LAMBDA c : ContainsFolded(c.name, search.s)
                            \/ ContainsFolded(c.email, search.s))
    ELSE customers

\* C7: the customer list search returns exactly the customers whose name or
\* email contains the search string as a case-insensitive substring, each
\* annotated with its own full total_revenue; an empty or absent search
\* applies no filter, and the first page is then the first 2 of all
\* customers.
C7_Search ==
    /\ Idle =>
        \A search \in SearchParams :
            LET rows == CustomersListView_get_queryset(search)
            IN  /\ Len(rows) = Len(Wanted(search))
                /\ \A i \in 1..Len(rows) :
                    /\ rows[i].id = Wanted(search)[i].id
                    /\ rows[i].name = Wanted(search)[i].name
                    /\ rows[i].email = Wanted(search)[i].email
                    /\ rows[i].total_revenue =
                           (IF HasOrders(rows[i].id)
                            THEN DecVal(RevenueOf(rows[i].id)) ELSE None)
    /\ (IsCustomersList(req) /\ req.args.search.s = <<>>
            /\ req.args.page = MissingParam) =>
        /\ resp.status = 200
        /\ Len(resp.ctx.page_obj.object_list) = Min(2, Len(customers))
        /\ \A i \in 1..Min(2, Len(customers)) :
               resp.ctx.page_obj.object_list[i].id = customers[i].id

\* C7's case: of three customers the search 'AL' found two, one by its name
\* and one by its email, and one of them has revenue
C7_Witness ==
    /\ IsCustomersList(req)
    /\ req.args.search = Search(<<"A", "L">>)
    /\ req.args.page = MissingParam
    /\ Len(customers) = 3
    /\ resp.status = 200
    /\ Len(resp.ctx.page_obj.object_list) = 2
    /\ \E i \in 1..2 : resp.ctx.page_obj.object_list[i].total_revenue # None
    /\ \E i \in 1..2 :
           ~ContainsFolded(resp.ctx.page_obj.object_list[i].name, <<"A", "L">>)

----------------------------------------------------------------------------
(* The product list's aggregates *)

IsProductList(r) == r.view = "ProductListTemplateView"

RECURSIVE QuantityUpTo(_, _)
\* the quantities of the first n orders that are for a product in `slugs`
QuantityUpTo(slugs, n) ==
    IF n = 0 THEN 0
    ELSE QuantityUpTo(slugs, n - 1)
             + (IF orders[n].product \in slugs THEN orders[n].quantity ELSE 0)

\* the sum of ordered quantities over the products in `slugs`, NULL when
\* none of them is ordered
QuantityOver(slugs) ==
    IF \E n \in 1..Len(orders) : orders[n].product \in slugs
    THEN IntVal(QuantityUpTo(slugs, Len(orders))) ELSE None

\* the mean of the prices of all products, as sum / count
MeanPrice ==
    IF products = <<>> THEN None
    ELSE [k |-> "Decimal", s |-> <<>>, d |-> Len(products),
          n |-> SumPrice(products)]

AllSlugs == {products[i].slug : i \in 1..Len(products)}
ShownSlugs == {row.slug : row \in Range(resp.ctx.page_obj.object_list)}

\* C8: in the product list view total_quantity is the sum of ordered
\* quantities over only the products on the displayed page, and
\* average_price is the mean price over all products.
C8_PageScopedQuantity ==
    IsProductList(req) =>
        /\ resp.ctx.total_quantity = QuantityOver(ShownSlugs)
        /\ resp.ctx.average_price = MeanPrice

\* C8 as the code has it: total_quantity is the sum of ordered quantities
\* over the orders of all products, whichever page is displayed, and
\* average_price is the mean price over all products; neither differs
\* between pages.
C8_GlobalQuantity ==
    /\ IsProductList(req) =>
        /\ resp.ctx.total_quantity = QuantityOver(AllSlugs)
        /\ resp.ctx.average_price = MeanPrice
    /\ Idle =>
        \A p \in PageParams, q \in PageParams :
            /\ ProductListTemplateView(p).ctx.total_quantity
                   = ProductListTemplateView(q).ctx.total_quantity
            /\ ProductListTemplateView(p).ctx.average_price
                   = ProductListTemplateView(q).ctx.average_price

\* C8's case: page 2 of three products is shown, a product of page 1 is
\* ordered, and the total counts that order
C8_Witness ==
    /\ IsProductList(req)
    /\ Len(products) = 3
    /\ req.args.page = IntParam(2)
    /\ ShownSlugs = {3}
    /\ \E n \in 1..Len(orders) : orders[n].product = 1
    /\ \E n \in 1..Len(orders) : orders[n].product = 3
    /\ resp.ctx.total_quantity = QuantityOver({1, 2, 3})
    /\ resp.ctx.total_quantity # QuantityOver({3})

----------------------------------------------------------------------------
(* Lookups of rows that are not there *)

NoProduct(slug) == \A i \in 1..Len(products) : products[i].slug # slug
NoCustomer(pk) == \A i \in 1..Len(customers) : customers[i].id # pk

ProductLookup(r) == r.view \in {"ProductDetailTemplateView", "ProductUpdateView"}
CustomerLookup(r) ==
    r.view \in {"CustomerDetailView", "CustomerDeleteView", "CustomerUpdateView"}

\* the request r looks up a row the database does not hold
LooksUpAbsent(r) ==
    \/ ProductLookup(r) /\ NoProduct(r.args.slug)
    \/ CustomerLookup(r) /\ NoCustomer(r.args.pk)

Unhandled(r) == r.status = 500 /\ r.kind = "raise"

\* C9: a lookup of an absent product slug (product detail, product update)
\* or of an absent customer id in the customer detail view is answered with
\* the standard 404, a customer delete or update of an absent id raises an
\* unhandled lookup error, and in each case no Product, Customer or Order
\* row is created, changed or deleted.
C9_NotFoundAsSpecified ==
    [][ LooksUpAbsent(req') =>
            /\ (ProductLookup(req') \/ req'.view = "CustomerDetailView")
                   => resp' = Http404
            /\ req'.view \in {"CustomerDeleteView", "CustomerUpdateView"}
                   => Unhandled(resp')
            /\ UNCHANGED <<products, customers, orders>> ]_vars

\* C9 as the code has it: an absent customer id is answered with the
\* standard 404 by the customer detail view and by customer delete; an
\* absent product slug (product detail, product update) and an absent
\* customer id in customer update raise an unhandled lookup error
\* (DoesNotExist); in each case no Product, Customer or Order row is
\* created, changed or deleted.
C9_NotFoundAsBuilt ==
    [][ LooksUpAbsent(req') =>
            /\ req'.view \in {"CustomerDetailView", "CustomerDeleteView"}
                   => resp' = Http404
            /\ ProductLookup(req')
                   => (Unhandled(resp') /\ resp'.target = "Product.DoesNotExist")
            /\ req'.view = "CustomerUpdateView"
                   => (Unhandled(resp') /\ resp'.target = "Customer.DoesNotExist")
            /\ UNCHANGED <<products, customers, orders>> ]_vars

\* C9's case: a customer that is not there was to be deleted, of a database
\* that holds customers, products and orders
C9_Witness ==
    /\ req.view = "CustomerDeleteView"
    /\ NoCustomer(req.args.pk)
    /\ resp = Http404
    /\ customers # <<>>
    /\ products # <<>>
    /\ orders # <<>>

----------------------------------------------------------------------------
(* Customers without orders *)

\* a total_revenue that is shown and is not null
ShowsRevenue(format, i) ==
    /\ Exported(format).status = 200
    /\ \/ ExportedTexts(format, i)[6] # <<>>
       \/ format = "json" /\ Exported(format).ctx.rows[i][6].k # "null"
       \/ format = "xlsx" /\ Exported(format).ctx.rows[i][6].k # "empty"

====
